---- MODULE Spec2Model ----
(***************************************************************************)
(* Model of the pipeline grouping, navigation and playback engine of       *)
(* kube-controller-viz: class ReconcileFlow (final revision,               *)
(* frontend/src/components/ReconcileFlow.js lines 739-2057) as driven by   *)
(* the ControllerViz component (frontend/src/components/ControllerViz.js). *)
(*                                                                         *)
(* Positions along a path are the JavaScript numbers in [0,1]; the model   *)
(* keeps them as fixed-point integers in units of 1/PosScale.              *)
(***************************************************************************)
EXTENDS Integers, Sequences, FiniteSets, TLC

VARIABLES steps, groupingMode, pipelineObjects, ballPositions, targetPositions,
          currentStepIndices, animating, manualControl, activePipelineId,
          currentStep, pipelines, curves, tubes, balls

vars == <<steps, groupingMode, pipelineObjects, ballPositions, targetPositions,
          currentStepIndices, animating, manualControl, activePipelineId,
          currentStep, pipelines, curves, tubes, balls>>

----------------------------------------------------------------------------
(* Bounds of the model *)

\* longest step list handed to updateSteps
MaxSnapshotLen == 3

\* longest step list on which the grouping functions are explored
MaxLen == 3

\* number of animation frames followed after a mode round trip
MaxTicks == 3

----------------------------------------------------------------------------
(* Values *)

\* this.activePipelineId = null
NoPipeline == "null"

\* this.currentStep = null, or "no step" returned by getCurrentStep
NoStep == <<>>

EmptyMap == [k \in {} |-> 0]

Min(a, b) == IF a <= b THEN a ELSE b

Max(a, b) == IF a >= b THEN a ELSE b

Abs(a) == IF a >= 0 THEN a ELSE 0 - a

\* fixed-point resolution of a position: the number p is kept as p * PosScale
PosScale == 12 * 5000

\* 0.001, the distance below which a ball counts as being at its target
Epsilon == PosScale \div 1000

\* minStep = 0.0005
MinStep == PosScale \div 2000

\* maxStep = 0.003
MaxStep == (3 * PosScale) \div 1000

\* index / Math.max(1, total - 1)
StepPosition(index, total) == (index * PosScale) \div Max(1, total - 1)

----------------------------------------------------------------------------
(* Step records *)

Rec(id, rid, rID, ns, nm, t, t2) ==
  [id |-> id, reconcileId |-> rid, reconcileID |-> rID,
   namespace |-> ns, name |-> nm, timestamp |-> t, ts |-> t2]

\* The log of step records the snapshots are windows of.  "" is an absent
\* field and 0 an absent timestamp.
Timeline ==
  << Rec(1, "A", "", "n", "x", 1, 0),
     Rec(2, "A", "", "n", "x", 3, 0),
     Rec(3, "A", "", "n", "y", 2, 0),
     Rec(4, "", "B", "n", "y", 0, 2) >>

\* the contiguous windows of a list that hold at most n records
Windows(l, n) ==
  { SubSeq(l, i, j) : i \in 1..Len(l), j \in 0..Len(l) } \cap
  { w \in UNION { [1..k -> {l[x] : x \in 1..Len(l)}] : k \in 0..n } : TRUE }

\* the step lists the snapshot source delivers (recentSteps): the empty
\* list and windows of the log
Snapshots == Windows(Timeline, MaxSnapshotLen)

\* the keys a pointer selection can name: every tube on screen, and one
\* key that never has a pipeline
SelectableKeys == {"A", "B", "n/x", "n/y", "Z"}

GroupingModes == {"reconcileId", "resource"}

\* (elapsed milliseconds since the previous update, speed slider in tenths)
TickInputs == { <<3000, 10>>, <<0, 10>> }

----------------------------------------------------------------------------
(* Grouping *)

\* mutant: the reconcileID spelling of the key is not looked at
ReconcileKeyNoFallback(step) == step.reconcileId

\* step.reconcileId || step.reconcileID ; "" when the step has no key
ReconcileKey(step) ==
  IF step.reconcileId # "" THEN step.reconcileId ELSE step.reconcileID

\* `${namespace}/${name}` ; "" when the step has no key
ResourceKey(step) ==
  IF step.namespace = "" \/ step.name = "" THEN ""
  ELSE step.namespace \o "/" \o step.name

GroupKey(step, mode) ==
  IF mode = "resource" THEN ResourceKey(step) ELSE ReconcileKey(step)

\* new Date(a.timestamp || a.ts || 0).getTime()
TimeValue(step) ==
  IF step.timestamp # 0 THEN step.timestamp ELSE step.ts

\* a timestamp that Date cannot parse; its getTime() is NaN, for which this
\* value stands as well
Unparsable == 0 - 1

\* aTimeValue - bTimeValue as Array.prototype.sort takes it: a comparator
\* result of NaN counts as +0
CompareTime(a, b) ==
  IF TimeValue(a) = Unparsable \/ TimeValue(b) = Unparsable THEN 0
  ELSE TimeValue(a) - TimeValue(b)

RECURSIVE InsertSortedBeforeEqual(_, _)
\* mutant: x is put in front of the elements that compare equal to it
InsertSortedBeforeEqual(sorted, x) ==
  IF sorted = <<>> THEN <<x>>
  ELSE IF CompareTime(Head(sorted), x) < 0
       THEN <<Head(sorted)>> \o InsertSortedBeforeEqual(Tail(sorted), x)
       ELSE <<x>> \o sorted

RECURSIVE InsertSorted(_, _)
\* put x behind every element that does not compare greater than it
InsertSorted(sorted, x) ==
  IF sorted = <<>> THEN <<x>>
  ELSE IF CompareTime(Head(sorted), x) <= 0
       THEN <<Head(sorted)>> \o InsertSorted(Tail(sorted), x)
       ELSE <<x>> \o sorted

RECURSIVE SortByTime(_)
\* Array.prototype.sort with the timestamp comparator (a stable sort)
SortByTime(l) ==
  IF l = <<>> THEN <<>>
  ELSE InsertSorted(SortByTime(SubSeq(l, 1, Len(l) - 1)), l[Len(l)])

\* the comparator is consistent on l: no record of l has an unparsable time,
\* or those with a parsable time all have the same one (a record with an
\* unparsable time compares equal to every record)
ConsistentComparator(l) ==
  LET times == { TimeValue(l[i]) : i \in 1..Len(l) }
  IN  Unparsable \notin times \/ Cardinality(times \ {Unparsable}) <= 1

\* the lists that hold the elements of l in some order
Orderings(l) ==
  { [i \in 1..Len(l) |-> l[p[i]]] :
      p \in { q \in [1..Len(l) -> 1..Len(l)] :
                \A i \in 1..Len(l) : \E j \in 1..Len(l) : q[j] = i } }

\* what the sort of a group can leave: the stable sorted order when the
\* comparator is consistent; otherwise the order is implementation-defined
\* and any order of the elements is possible
SortOutcomes(l) ==
  IF ConsistentComparator(l) THEN {SortByTime(l)} ELSE Orderings(l)

RECURSIVE KeysInOrder(_, _, _)
\* the keys of the grouping Map in insertion (first seen) order
KeysInOrder(l, mode, seen) ==
  IF l = <<>> THEN <<>>
  ELSE LET k == GroupKey(Head(l), mode)
       IN  IF k = "" \/ k \in seen
           THEN KeysInOrder(Tail(l), mode, seen)
           ELSE <<k>> \o KeysInOrder(Tail(l), mode, seen \cup {k})

RECURSIVE StepsWithKey(_, _, _)
StepsWithKey(l, mode, key) ==
  IF l = <<>> THEN <<>>
  ELSE IF GroupKey(Head(l), mode) = key
       THEN <<Head(l)>> \o StepsWithKey(Tail(l), mode, key)
       ELSE StepsWithKey(Tail(l), mode, key)

\* the grouping Map: keys in insertion order, and the sorted steps per key
GroupBy(l, mode) ==
  LET ks == KeysInOrder(l, mode, {})
  IN  [keys |-> ks,
       map  |-> [k \in {ks[i] : i \in 1..Len(ks)} |->
                   SortByTime(StepsWithKey(l, mode, k))]]

getStepsByReconcileId(s) == GroupBy(s.steps, "reconcileId")

getStepsByResource(s) == GroupBy(s.steps, "resource")

getGroupedSteps(s) ==
  IF s.groupingMode = "resource" THEN getStepsByResource(s)
  ELSE getStepsByReconcileId(s)

Has(m, k) == k \in DOMAIN m

----------------------------------------------------------------------------
(* The engine as one value, so that a method can call another.  Of the maps
   pipelines, curves, tubes and balls, whose values are scene objects, the
   keys are kept.  Besides the fields of the object the value carries the
   outcome of the call in progress: ret,
   the value returned ("void" when the method returns nothing), and threw,
   whether the call ended in an uncaught TypeError. *)

St ==
  [steps |-> steps, groupingMode |-> groupingMode,
   pipelineObjects |-> pipelineObjects, ballPositions |-> ballPositions,
   targetPositions |-> targetPositions,
   currentStepIndices |-> currentStepIndices, animating |-> animating,
   manualControl |-> manualControl, activePipelineId |-> activePipelineId,
   currentStep |-> currentStep, pipelines |-> pipelines, curves |-> curves,
   tubes |-> tubes, balls |-> balls, ret |-> "void", threw |-> FALSE]

\* the fields of the object are what a call leaves behind
Commit(s) ==
  /\ steps' = s.steps
  /\ groupingMode' = s.groupingMode
  /\ pipelineObjects' = s.pipelineObjects
  /\ ballPositions' = s.ballPositions
  /\ targetPositions' = s.targetPositions
  /\ currentStepIndices' = s.currentStepIndices
  /\ animating' = s.animating
  /\ manualControl' = s.manualControl
  /\ activePipelineId' = s.activePipelineId
  /\ currentStep' = s.currentStep
  /\ pipelines' = s.pipelines
  /\ curves' = s.curves
  /\ tubes' = s.tubes
  /\ balls' = s.balls

\* Map.set(k, v)
Put(m, k, v) == [x \in DOMAIN m \cup {k} |-> IF x = k THEN v ELSE m[x]]

\* Array.from(this.pipelineObjects.keys())
getPipelineIds(s) == [i \in 1..Len(s.pipelineObjects) |-> s.pipelineObjects[i].id]

\* the keys of pipelineObjects
PipelineKeys(s) == { s.pipelineObjects[i].id : i \in 1..Len(s.pipelineObjects) }

----------------------------------------------------------------------------
(* Step lookup *)

\* mutant: the count is stored under the name stepNumber as well
EnrichedCountAsNumber(step, index, totalSteps) ==
  [f \in DOMAIN step \cup {"metadata"} |->
     IF f = "metadata"
     THEN [stepNumber |-> totalSteps, totalSteps |-> totalSteps]
     ELSE step[f]]

\* the object enrichStepWithMetadata builds: { ...step } with its metadata
\* field set to { stepNumber: index + 1, totalSteps }
Enriched(step, index, totalSteps) ==
  [f \in DOMAIN step \cup {"metadata"} |->
     IF f = "metadata"
     THEN [stepNumber |-> index + 1, totalSteps |-> totalSteps]
     ELSE step[f]]

\* enrichStepWithMetadata of a defined step; of an undefined step it throws
\* a TypeError (step[field]), which its callers model
enrichStepWithMetadata(s, step, index, totalSteps) ==
  [s EXCEPT !.currentStep = <<Enriched(step, index, totalSteps)>>]

RECURSIVE ClosestFromLastWins(_, _, _, _, _)
\* mutant: a step as close as the closest so far replaces it
ClosestFromLastWins(pos, stepCount, i, closestIndex, closestDistance) ==
  IF i >= stepCount THEN closestIndex
  ELSE LET distance == Abs(pos - StepPosition(i, stepCount))
       IN  IF distance <= closestDistance
           THEN ClosestFromLastWins(pos, stepCount, i + 1, i, distance)
           ELSE ClosestFromLastWins(pos, stepCount, i + 1, closestIndex,
                                    closestDistance)

RECURSIVE ClosestFrom(_, _, _, _, _)
ClosestFrom(pos, stepCount, i, closestIndex, closestDistance) ==
  IF i >= stepCount THEN closestIndex
  ELSE LET distance == Abs(pos - StepPosition(i, stepCount))
       IN  IF distance < closestDistance
           THEN ClosestFrom(pos, stepCount, i + 1, i, distance)
           ELSE ClosestFrom(pos, stepCount, i + 1, closestIndex, closestDistance)

\* the loop "find the closest step to the current position"
ClosestIndex(pos, stepCount) == ClosestFrom(pos, stepCount, 0, 0, PosScale)

\* this.currentStepIndices.get(id) || 0
IndexOrZero(s, id) ==
  IF Has(s.currentStepIndices, id) THEN s.currentStepIndices[id] ELSE 0

RECURSIVE FirstWithSteps(_, _, _)
\* the first pipeline, in the insertion order of ballPositions, that has
\* steps in the grouping; <<>> when there is none
FirstWithSteps(ids, positions, map) ==
  IF ids = <<>> THEN <<>>
  ELSE IF Has(positions, Head(ids)) /\ Has(map, Head(ids))
       THEN <<Head(ids)>>
       ELSE FirstWithSteps(Tail(ids), positions, map)

\* the step of group id nearest to that pipeline's ball
NearestStep(s, map, id) ==
  LET group == map[id]
      i == ClosestIndex(s.ballPositions[id], Len(group))
  IN  Enriched(group[i + 1], i, Len(group))

\* mutant: the stored index is consulted in automatic mode as well
CurrentStepValueByIndex(s) ==
  LET map == getGroupedSteps(s).map
      a == s.activePipelineId
      idx == IndexOrZero(s, a)
  IN  IF /\ a # NoPipeline
         /\ Has(map, a)
         /\ Len(map[a]) > idx
      THEN <<Enriched(map[a][idx + 1], idx, Len(map[a]))>>
      ELSE IF DOMAIN s.ballPositions = {} THEN s.currentStep
      ELSE IF a # NoPipeline /\ Has(map, a) /\ Has(s.ballPositions, a)
      THEN <<NearestStep(s, map, a)>>
      ELSE LET first == FirstWithSteps(getPipelineIds(s), s.ballPositions, map)
           IN  IF first # <<>> THEN <<NearestStep(s, map, first[1])>>
               ELSE s.currentStep

\* the value getCurrentStep returns
CurrentStepValue(s) ==
  LET map == getGroupedSteps(s).map
      a == s.activePipelineId
      idx == IndexOrZero(s, a)
  IN  IF /\ s.manualControl
         /\ a # NoPipeline
         /\ Has(map, a)
         /\ Len(map[a]) > idx
      THEN <<Enriched(map[a][idx + 1], idx, Len(map[a]))>>
      ELSE IF DOMAIN s.ballPositions = {} THEN s.currentStep
      ELSE IF a # NoPipeline /\ Has(map, a) /\ Has(s.ballPositions, a)
      THEN <<NearestStep(s, map, a)>>
      ELSE LET first == FirstWithSteps(getPipelineIds(s), s.ballPositions, map)
           IN  IF first # <<>> THEN <<NearestStep(s, map, first[1])>>
               ELSE s.currentStep

\* getCurrentStep: every path that finds a step stores it in currentStep
getCurrentStep(s) ==
  LET v == CurrentStepValue(s)
  IN  [s EXCEPT !.currentStep = v]

\* flashBall changes engine state only through its call of getCurrentStep
flashBall(s, id) ==
  IF id \notin PipelineKeys(s) THEN s
  ELSE [s EXCEPT !.currentStep = CurrentStepValue(s)]

----------------------------------------------------------------------------
(* Selection and manual navigation *)

\* mutant: the existence check always succeeds
PipelineExistsAlways(s, id) == TRUE

\* "the pipeline exists in any collection": pipelineObjects, tubes, curves or
\* pipelines
PipelineExists(s, id) ==
  id \in PipelineKeys(s) \cup s.tubes \cup s.curves \cup s.pipelines

setActivePipeline(s, pipelineId) ==
  IF s.activePipelineId = pipelineId THEN [s EXCEPT !.ret = "true"]
  ELSE IF ~PipelineExists(s, pipelineId) THEN [s EXCEPT !.ret = "false"]
  ELSE
    LET s1 == [s EXCEPT !.activePipelineId = pipelineId, !.ret = "true"]
        map == getGroupedSteps(s1).map
    IN  IF ~s1.manualControl THEN s1
        ELSE IF ~(Has(map, pipelineId) /\ Len(map[pipelineId]) > 0) THEN s1
        ELSE
          LET group == map[pipelineId]
              currentIndex == IndexOrZero(s1, pipelineId)
              s2 == IF Has(s1.currentStepIndices, pipelineId) THEN s1
                    ELSE [s1 EXCEPT !.currentStepIndices = Put(@, pipelineId, 0)]
          IN  IF currentIndex < Len(group)
              THEN [enrichStepWithMetadata(s2, group[currentIndex + 1],
                                           currentIndex, Len(group))
                      EXCEPT !.targetPositions =
                               Put(@, pipelineId,
                                   StepPosition(currentIndex, Len(group))),
                             !.animating = TRUE]
              ELSE s2

\* mutant: a pipeline without an index gets the index of its last step
WithAllIndicesAtEnd(s) ==
  [k \in DOMAIN s.currentStepIndices \cup PipelineKeys(s) |->
     IF Has(s.currentStepIndices, k) THEN s.currentStepIndices[k]
     ELSE LET map == getGroupedSteps(s).map
          IN  IF Has(map, k) THEN Max(0, Len(map[k]) - 1) ELSE 0]

\* currentStepIndices after "make sure all pipelines have current step indices"
WithAllIndices(s) ==
  [k \in DOMAIN s.currentStepIndices \cup PipelineKeys(s) |->
     IF Has(s.currentStepIndices, k) THEN s.currentStepIndices[k] ELSE 0]

initializeManualNavigation(s) ==
  IF ~s.manualControl THEN s
  ELSE
    LET s0 == [s EXCEPT !.animating = FALSE]
        pipelineIds == getPipelineIds(s0)
    IN  IF pipelineIds = <<>> THEN s0
        ELSE
          LET s1 == IF /\ s0.activePipelineId # NoPipeline
                       /\ s0.activePipelineId \in PipelineKeys(s0)
                    THEN s0
                    ELSE setActivePipeline(s0, pipelineIds[1])
              s2 == [s1 EXCEPT !.currentStepIndices = WithAllIndices(s1)]
              a == s2.activePipelineId
              map == getGroupedSteps(s2).map
          IN  IF a = NoPipeline THEN s2
              ELSE IF ~(Has(map, a) /\ Len(map[a]) > 0) THEN s2
              ELSE
                LET group == map[a]
                    currentIndex == IndexOrZero(s2, a)
                IN  IF currentIndex >= Len(group)
                    THEN \* steps[currentIndex] is undefined: TypeError
                         [s2 EXCEPT !.threw = TRUE]
                    ELSE flashBall(
                           [enrichStepWithMetadata(s2, group[currentIndex + 1],
                                                   currentIndex, Len(group))
                              EXCEPT !.targetPositions =
                                       Put(@, a, StepPosition(currentIndex,
                                                              Len(group))),
                                     !.animating = TRUE],
                           a)

\* mutant: the target is index / total instead of index / max(1, total - 1)
MoveToWrongTarget(s, newIndex, group) ==
  LET a == s.activePipelineId
      s1 == [s EXCEPT !.currentStepIndices = Put(@, a, newIndex)]
  IN  [enrichStepWithMetadata(s1, group[newIndex + 1], newIndex, Len(group))
         EXCEPT !.targetPositions =
                  Put(@, a, (newIndex * PosScale) \div Len(group)),
                !.animating = TRUE,
                !.ret = "true"]

\* mutant: the new target is given to every ball
MoveToAllTargets(s, newIndex, group) ==
  LET a == s.activePipelineId
      s1 == [s EXCEPT !.currentStepIndices = Put(@, a, newIndex)]
  IN  IF newIndex >= Len(group)
      THEN [s1 EXCEPT !.threw = TRUE]
      ELSE [flashBall(
              [enrichStepWithMetadata(s1, group[newIndex + 1], newIndex,
                                      Len(group))
                 EXCEPT !.targetPositions =
                          [k \in DOMAIN @ \cup {a} |->
                             StepPosition(newIndex, Len(group))],
                        !.animating = TRUE],
              a)
              EXCEPT !.ret = "true"]

\* the common tail of moveToNextStep and moveToPreviousStep: store the new
\* index, cache the step, set the target, animate, flash
MoveTo(s, newIndex, group) ==
  LET a == s.activePipelineId
      s1 == [s EXCEPT !.currentStepIndices = Put(@, a, newIndex)]
  IN  IF newIndex >= Len(group)
      THEN \* steps[newIndex] is undefined: TypeError in enrichStepWithMetadata
           [s1 EXCEPT !.threw = TRUE]
      ELSE [flashBall(
              [enrichStepWithMetadata(s1, group[newIndex + 1], newIndex,
                                      Len(group))
                 EXCEPT !.targetPositions =
                          Put(@, a, StepPosition(newIndex, Len(group))),
                        !.animating = TRUE],
              a)
              EXCEPT !.ret = "true"]

\* mutant: the boundary test lets the last index through
moveToNextStepPastEnd(s) ==
  LET a == s.activePipelineId
      map == getGroupedSteps(s).map
  IN  IF a = NoPipeline \/ ~Has(map, a) THEN [s EXCEPT !.ret = "false"]
      ELSE IF IndexOrZero(s, a) > Len(map[a]) - 1 THEN [s EXCEPT !.ret = "false"]
           ELSE MoveTo(s, IndexOrZero(s, a) + 1, map[a])

moveToNextStep(s) ==
  LET a == s.activePipelineId
      map == getGroupedSteps(s).map
  IN  IF a = NoPipeline THEN [s EXCEPT !.ret = "false"]
      ELSE IF ~Has(map, a) THEN [s EXCEPT !.ret = "false"]
      ELSE IF Len(map[a]) = 0 THEN [s EXCEPT !.ret = "false"]
      ELSE
        LET currentIndex == IF Has(s.currentStepIndices, a)
                            THEN s.currentStepIndices[a] ELSE 0
        IN  IF currentIndex >= Len(map[a]) - 1 THEN [s EXCEPT !.ret = "false"]
            ELSE MoveTo(s, currentIndex + 1, map[a])

moveToPreviousStep(s) ==
  LET a == s.activePipelineId
      map == getGroupedSteps(s).map
  IN  IF a = NoPipeline THEN [s EXCEPT !.ret = "false"]
      ELSE IF ~Has(map, a) THEN [s EXCEPT !.ret = "false"]
      ELSE IF Len(map[a]) = 0 THEN [s EXCEPT !.ret = "false"]
      ELSE
        LET currentIndex == IF Has(s.currentStepIndices, a)
                            THEN s.currentStepIndices[a] ELSE 0
        IN  IF currentIndex <= 0 THEN [s EXCEPT !.ret = "false"]
            ELSE MoveTo(s, currentIndex - 1, map[a])

----------------------------------------------------------------------------
(* Pipeline registry *)

\* getCurveForReconcileId: the curve of a known key is returned as it is;
\* for any other key a path is built on the spot by createFlowPath, which
\* puts a ball for the key at position 0 with target 0, and the new curve is
\* returned.  The key is not entered into pipelineObjects.
getCurveForReconcileId(s, reconcileId) ==
  IF reconcileId \in s.curves \cup s.pipelines THEN [s EXCEPT !.ret = "curve"]
  ELSE [s EXCEPT !.curves = @ \cup {reconcileId},
                 !.tubes = @ \cup {reconcileId},
                 !.balls = @ \cup {reconcileId},
                 !.ballPositions = Put(@, reconcileId, 0),
                 !.targetPositions = Put(@, reconcileId, 0),
                 !.pipelines = @ \cup {reconcileId},
                 !.ret = "curve"]

\* mutant: the tube is not entered into the tubes map
createFlowPathNoTube(s, offsetX, offsetY, reconcileId) ==
  [s EXCEPT !.pipelineObjects =
              Append(@, [id |-> reconcileId, offsetX |-> offsetX,
                         offsetY |-> offsetY]),
            !.ballPositions = Put(@, reconcileId, 0),
            !.targetPositions = Put(@, reconcileId, 0),
            !.curves = @ \cup {reconcileId},
            !.balls = @ \cup {reconcileId},
            !.pipelines = @ \cup {reconcileId}]

\* createFlowPath and the registration that follows it in updateSteps: the
\* curve, tube and ball are created, the ball is put at position 0
createFlowPath(s, offsetX, offsetY, reconcileId) ==
  [s EXCEPT !.pipelineObjects =
              Append(@, [id |-> reconcileId, offsetX |-> offsetX,
                         offsetY |-> offsetY]),
            !.ballPositions = Put(@, reconcileId, 0),
            !.targetPositions = Put(@, reconcileId, 0),
            !.curves = @ \cup {reconcileId},
            !.tubes = @ \cup {reconcileId},
            !.balls = @ \cup {reconcileId},
            !.pipelines = @ \cup {reconcileId}]

RECURSIVE ProcessGroupsRecreating(_, _, _, _)
\* mutant: a path is built for every group, registered or not
ProcessGroupsRecreating(s, keys, offsetX, offsetY) ==
  IF keys = <<>> THEN s
  ELSE LET s1 == createFlowPath(s, offsetX, offsetY, Head(keys))
           y == offsetY - 5
       IN  IF y < -15
           THEN ProcessGroupsRecreating(s1, Tail(keys), offsetX + 30, 5)
           ELSE ProcessGroupsRecreating(s1, Tail(keys), offsetX, y)

RECURSIVE ProcessGroups(_, _, _, _)
\* the loop of updateSteps over the groups, in the grouping Map's order
ProcessGroups(s, keys, offsetX, offsetY) ==
  IF keys = <<>> THEN s
  ELSE IF PipelineExists(s, Head(keys))
       THEN ProcessGroups(s, Tail(keys), offsetX, offsetY)
       ELSE LET s1 == createFlowPath(s, offsetX, offsetY, Head(keys))
                y == offsetY - 5
            IN  IF y < -15
                THEN ProcessGroups(s1, Tail(keys), offsetX + 30, 5)
                ELSE ProcessGroups(s1, Tail(keys), offsetX, y)

\* mutant: the pipelines of keys missing from the new list are removed
updateStepsEagerRemoval(s, newSteps) ==
  IF newSteps = <<>> THEN s
  ELSE
    LET s1 == [s EXCEPT !.steps = newSteps]
        groupedSteps == getGroupedSteps(s1)
        s2 == ProcessGroups(s1, groupedSteps.keys, -15, 5)
        kept == DOMAIN groupedSteps.map
        s3 == [s2 EXCEPT
                 !.pipelineObjects = SelectSeq(@, LAMBDA o : o.id \in kept),
                 !.ballPositions = [k \in DOMAIN @ \cap kept |-> @[k]],
                 !.targetPositions = [k \in DOMAIN @ \cap kept |-> @[k]],
                 !.pipelines = @ \cap kept, !.curves = @ \cap kept,
                 !.tubes = @ \cap kept, !.balls = @ \cap kept]
    IN  IF s3.activePipelineId = NoPipeline /\ Len(groupedSteps.keys) > 0
        THEN setActivePipeline(s3, groupedSteps.keys[1])
        ELSE s3

\* mutant: the default selection takes the last group instead of the first
updateStepsSelectingLast(s, newSteps) ==
  IF newSteps = <<>> THEN s
  ELSE
    LET s1 == [s EXCEPT !.steps = newSteps]
        groupedSteps == getGroupedSteps(s1)
        s2 == ProcessGroups(s1, groupedSteps.keys, -15, 5)
    IN  IF s2.activePipelineId = NoPipeline /\ Len(groupedSteps.keys) > 0
        THEN setActivePipeline(s2, groupedSteps.keys[Len(groupedSteps.keys)])
        ELSE s2

updateSteps(s, newSteps) ==
  IF newSteps = <<>> THEN s
  ELSE
    LET s1 == [s EXCEPT !.steps = newSteps]
        groupedSteps == getGroupedSteps(s1)
        s2 == ProcessGroups(s1, groupedSteps.keys, -15, 5)
    IN  IF s2.activePipelineId = NoPipeline /\ Len(groupedSteps.keys) > 0
        THEN setActivePipeline(s2, groupedSteps.keys[1])
        ELSE s2

clearAllPipelines(s) ==
  [s EXCEPT !.pipelineObjects = <<>>,
            !.pipelines = {}, !.tubes = {}, !.curves = {}, !.balls = {},
            !.ballPositions = EmptyMap,
            !.targetPositions = EmptyMap,
            !.currentStepIndices = EmptyMap,
            !.currentStep = NoStep]

\* mutant: the pipelines are rebuilt whether the mode changes or not
setGroupingModeAlwaysRebuilding(s, requested) ==
  LET mode == IF requested \in GroupingModes THEN requested ELSE "reconcileId"
      s1 == clearAllPipelines([s EXCEPT !.groupingMode = mode])
      s2 == IF Len(s1.steps) > 0 THEN updateSteps(s1, s1.steps) ELSE s1
  IN  [s2 EXCEPT !.activePipelineId = NoPipeline]

\* mutant: the active pipeline is not reset after a change of mode
setGroupingModeKeepingActive(s, requested) ==
  LET mode == IF requested \in GroupingModes THEN requested ELSE "reconcileId"
  IN  IF s.groupingMode = mode THEN s
      ELSE
        LET s1 == clearAllPipelines([s EXCEPT !.groupingMode = mode])
        IN  IF Len(s1.steps) > 0 THEN updateSteps(s1, s1.steps) ELSE s1

setGroupingMode(s, requested) ==
  LET mode == IF requested \in GroupingModes THEN requested ELSE "reconcileId"
  IN  IF s.groupingMode = mode THEN s
      ELSE
        LET s1 == clearAllPipelines([s EXCEPT !.groupingMode = mode])
            s2 == IF Len(s1.steps) > 0 THEN updateSteps(s1, s1.steps) ELSE s1
        IN  [s2 EXCEPT !.activePipelineId = NoPipeline]

----------------------------------------------------------------------------
(* Playback *)

\* dynamicStep * adjustedDelta * 60, with
\* dynamicStep = Math.min(maxStep, distanceToTarget * 0.1 + minStep) and
\* adjustedDelta = (elapsedMs / 1000) * speed * animationSpeed
StepSize(distanceToTarget, elapsedMs, speedTenths) ==
  (Min(10 * MaxStep, distanceToTarget + 10 * MinStep)
     * elapsedMs * speedTenths * 6) \div 10000

\* mutant: the step is not capped by the remaining distance
NewPosUncapped(currentPos, targetPos, elapsedMs, speedTenths) ==
  LET distanceToTarget == Abs(targetPos - currentPos)
      direction == IF targetPos > currentPos THEN 1 ELSE -1
  IN  IF distanceToTarget < Epsilon THEN currentPos
      ELSE currentPos + direction *
             StepSize(distanceToTarget, elapsedMs, speedTenths)

\* the new position of one ball
NewPos(currentPos, targetPos, elapsedMs, speedTenths) ==
  LET distanceToTarget == Abs(targetPos - currentPos)
      direction == IF targetPos > currentPos THEN 1 ELSE -1
  IN  IF distanceToTarget < Epsilon THEN currentPos
      ELSE currentPos + direction *
             Min(StepSize(distanceToTarget, elapsedMs, speedTenths),
                 distanceToTarget)

\* "all balls at their targets"
AllAtTarget(positions, targets) ==
  \A k \in DOMAIN targets :
     ~(Abs(targets[k] - (IF Has(positions, k) THEN positions[k] ELSE 0))
         > Epsilon)

update(s, elapsedMs, speedTenths) ==
  IF ~s.animating THEN s
  ELSE
    LET moved == [k \in DOMAIN s.ballPositions \cup DOMAIN s.targetPositions |->
                    IF ~Has(s.ballPositions, k) THEN 0
                    ELSE IF ~Has(s.targetPositions, k) THEN s.ballPositions[k]
                    ELSE NewPos(s.ballPositions[k], s.targetPositions[k],
                                elapsedMs, speedTenths)]
    IN  [s EXCEPT !.ballPositions = moved,
                  !.animating = ~AllAtTarget(moved, s.targetPositions)]

----------------------------------------------------------------------------
(* The engine after construction, and the calls its host makes *)

Init ==
  /\ steps = <<>>
  /\ groupingMode = "reconcileId"
  /\ pipelineObjects = <<>>
  /\ ballPositions = EmptyMap
  /\ targetPositions = EmptyMap
  /\ currentStepIndices = EmptyMap
  /\ animating = FALSE
  /\ manualControl = FALSE
  /\ activePipelineId = NoPipeline
  /\ currentStep = NoStep
  /\ pipelines = {}
  /\ curves = {}
  /\ tubes = {}
  /\ balls = {}

\* the grouping modes a caller can ask for, a mistyped one included
ModeRequests == GroupingModes \cup {"namespace"}

\* useEffect on controllerState: a new snapshot has arrived
UpdateSteps(newSteps) == Commit(updateSteps(St, newSteps))

\* the animation frame
Tick(elapsedMs, speedTenths) == Commit(update(St, elapsedMs, speedTenths))

\* handleKeyDown, Space: flip the mode, and initialise manual navigation
\* when the new mode is manual
ToggleNavigationMode ==
  LET s == [St EXCEPT !.manualControl = ~manualControl]
  IN  Commit(IF s.manualControl THEN initializeManualNavigation(s) ELSE s)

\* a pointer selection of a pipeline
SelectPipeline(k) == Commit(setActivePipeline(St, k))

\* handleKeyDown, KeyG, and the useEffect on groupingMode
SetGroupingMode(mode) == Commit(setGroupingMode(St, mode))

\* handleKeyDown, ArrowRight: only in manual mode
ArrowRight == manualControl /\ Commit(moveToNextStep(St))

\* handleKeyDown, ArrowLeft: only in manual mode
ArrowLeft == manualControl /\ Commit(moveToPreviousStep(St))

\* the 100 ms poll and the detail panel
PollCurrentStep == Commit(getCurrentStep(St))

Next ==
  \/ \E l \in Snapshots : UpdateSteps(l)
  \/ \E in \in TickInputs : Tick(in[1], in[2])
  \/ ToggleNavigationMode
  \/ \E k \in SelectableKeys : SelectPipeline(k)
  \/ \E m \in ModeRequests : SetGroupingMode(m)
  \/ ArrowRight
  \/ ArrowLeft
  \/ PollCurrentStep

Spec == Init /\ [][Next]_vars

\* the animation frames in which time has passed
PositiveTicks == { in \in TickInputs : in[1] > 0 /\ in[2] > 0 }

TickOn == \E in \in PositiveTicks : Tick(in[1], in[2])

\* The snapshots of the convergence check: the windows that start at the
\* second record of the log (key A with two steps, with and without key B)
LiveSnapshots == { w \in Snapshots : Len(w) >= 2 /\ w[1] = Timeline[2] }

LiveKeys == {"A", "B"}

NextLive ==
  \/ \E l \in LiveSnapshots : UpdateSteps(l)
  \/ \E in \in TickInputs : Tick(in[1], in[2])
  \/ ToggleNavigationMode
  \/ \E k \in LiveKeys : SelectPipeline(k)
  \/ ArrowRight
  \/ ArrowLeft

\* the frame loop keeps running (requestAnimationFrame re-arms itself), so
\* a tick that would change the state is eventually taken
FairSpec == Init /\ [][NextLive]_vars /\ WF_vars(TickOn)

\* Records for the exploration of the grouping functions: a record keyed by
\* reconcileId, one keyed only by reconcileID, one with both, one with no
\* reconcile key and no name, one with no namespace and no timestamp, and
\* one whose time (in ts) equals that of the first
GroupRecords ==
  { Rec(1, "A", "", "n", "x", 2, 0),
    Rec(2, "", "B", "n", "y", 0, 1),
    Rec(3, "A", "B", "n", "x", 1, 0),
    Rec(4, "", "", "n", "", 3, 0),
    Rec(5, "B", "", "", "y", 0, 0),
    Rec(6, "A", "", "n", "x", 0, 2) }

\* every list of at most MaxLen of these records, repetitions included
GroupLists == UNION { [1..k -> GroupRecords] : k \in 0..MaxLen }

NextGroup ==
  \/ \E l \in GroupLists : UpdateSteps(l)
  \/ \E m \in ModeRequests : SetGroupingMode(m)

\* the engine fed arbitrary step lists under either grouping mode
SpecGroup == Init /\ [][NextGroup]_vars

\* Records for the exploration of the timestamp defaults, all of key A and
\* of resource n/x but the last: times 2 and 1, no time at all, a timestamp
\* that cannot be parsed, a ts that cannot be parsed
TimeRecords ==
  { Rec(1, "A", "", "n", "x", 2, 0),
    Rec(2, "A", "", "n", "x", 1, 0),
    Rec(3, "A", "", "n", "x", 0, 0),
    Rec(4, "A", "", "n", "x", Unparsable, 0),
    Rec(5, "A", "", "n", "y", 0, Unparsable) }

\* every list of at most MaxLen of these records, repetitions included
TimeLists == UNION { [1..k -> TimeRecords] : k \in 0..MaxLen }

NextTime ==
  \/ \E l \in TimeLists : UpdateSteps(l)
  \/ \E m \in ModeRequests : SetGroupingMode(m)

\* the engine fed step lists with missing and unparsable timestamps
SpecTime == Init /\ [][NextTime]_vars

TypeOK ==
  /\ groupingMode \in GroupingModes
  /\ animating \in BOOLEAN
  /\ manualControl \in BOOLEAN

----------------------------------------------------------------------------
(* Properties *)

\* the ordered steps of the active key's group, <<>> when it has none
ActiveGroup ==
  LET map == getGroupedSteps(St).map
  IN  IF activePipelineId # NoPipeline /\ Has(map, activePipelineId)
      THEN map[activePipelineId] ELSE <<>>

ActiveIndex == IndexOrZero(St, activePipelineId)

\* C1 (selection safety): in every reachable state, setActivePipeline(k) for
\* a key k without a registered pipeline returns false and leaves the active
\* key, the positions, targets, step indices, cached step and animating flag
\* (every field of the engine) as they were.
C1_SelectionSafety ==
  \A k \in SelectableKeys :
     ~(k \in PipelineKeys(St)) =>
        setActivePipeline(St, k) = [St EXCEPT !.ret = "false"]

\* a state in manual mode, animating, with an active key, a cached step and
\* a stored index, in which "n/x" (a key of the other grouping) and "Z" have
\* no pipeline
C1_Witness ==
  /\ manualControl /\ animating
  /\ activePipelineId = "A"
  /\ currentStep # NoStep
  /\ Has(currentStepIndices, "A") /\ currentStepIndices["A"] > 0
  /\ ~("n/x" \in PipelineKeys(St)) /\ ~("Z" \in PipelineKeys(St))

\* C2 (boundary behaviour): moveToNextStep at the last index of the active
\* group and moveToPreviousStep at index 0 return false and leave every
\* key's step index, position and target (every field) unchanged.
C2_Boundary ==
  Len(ActiveGroup) > 0 =>
    /\ ActiveIndex = Len(ActiveGroup) - 1 =>
         moveToNextStep(St) = [St EXCEPT !.ret = "false"]
    /\ ActiveIndex = 0 =>
         moveToPreviousStep(St) = [St EXCEPT !.ret = "false"]

\* manual mode, the active key stepped to the last index of a group of three
\* while its ball is still on the way
C2_Witness ==
  /\ manualControl
  /\ Len(ActiveGroup) = 3
  /\ Has(currentStepIndices, activePipelineId)
  /\ ActiveIndex = 2
  /\ ballPositions[activePipelineId] # targetPositions[activePipelineId]

\* step i (from 0) of a group as the detail panel shows it: the fields of
\* the record, and "Step i + 1 of n"
Shown(group, i) ==
  [f \in DOMAIN group[i + 1] \cup {"metadata"} |->
     IF f = "metadata"
     THEN [stepNumber |-> i + 1, totalSteps |-> Len(group)]
     ELSE group[i + 1][f]]

\* what a successful move to index i of the active group leaves behind
MovedTo(r, i) ==
  /\ r.ret = "true"
  /\ r.currentStepIndices = Put(currentStepIndices, activePipelineId, i)
  /\ r.targetPositions =
       Put(targetPositions, activePipelineId,
           (i * PosScale) \div (IF Len(ActiveGroup) > 1
                                THEN Len(ActiveGroup) - 1 ELSE 1))
  /\ r.currentStep =
       << Shown(ActiveGroup, i) >>

C3_StepInv ==
  (manualControl /\ Len(ActiveGroup) > 0) =>
    LET n == Len(ActiveGroup)
        next == moveToNextStep(St)
        prev == moveToPreviousStep(St)
    IN  /\ next.ret = "true" => MovedTo(next, ActiveIndex + 1)
        /\ ActiveIndex < n - 1 => next.ret = "true"
        /\ ActiveIndex = n - 1 =>
             /\ next.ret = "false"
             /\ next.currentStepIndices = currentStepIndices
        /\ prev.ret = "true" => MovedTo(prev, ActiveIndex - 1)
        /\ (ActiveIndex > 0 /\ ActiveIndex <= n - 1) => prev.ret = "true"
        /\ ActiveIndex = 0 =>
             /\ prev.ret = "false"
             /\ prev.currentStepIndices = currentStepIndices

\* entering manual mode with an active key that has steps and no stored
\* index stores index 0 for it
C3_FirstEntry ==
  (/\ ~manualControl /\ manualControl'
   /\ activePipelineId' # NoPipeline
   /\ ~Has(currentStepIndices, activePipelineId'))
  => /\ Has(currentStepIndices', activePipelineId')
     /\ currentStepIndices'[activePipelineId'] = 0

\* C3 (manual stepping): with an active group of n >= 1 steps, entering
\* manual mode with no stored index gives index 0; in manual mode each
\* successful moveToNextStep raises the active key's index by exactly one,
\* sets its target to index/max(1,n-1) and caches steps[index]; at index n-1
\* moveToNextStep keeps the index; moveToPreviousStep mirrors this down to 0.
C3_ManualStepping == [](C3_StepInv) /\ [][C3_FirstEntry]_vars

\* manual mode, a group of three, the active key stepped from 0 to 1
C3_Witness ==
  /\ manualControl
  /\ Len(ActiveGroup) = 3
  /\ Has(currentStepIndices, activePipelineId)
  /\ ActiveIndex = 1
  /\ targetPositions[activePipelineId] = PosScale \div 2
  /\ currentStep # NoStep /\ currentStep[1].metadata.stepNumber = 2

\* the distance of key k's ball from its target
Distance(k) == Abs(targetPositions[k] - ballPositions[k])

\* every ball is within 0.001 of its target and the animation is off
Settled ==
  /\ ~animating
  /\ \A k \in DOMAIN targetPositions : Distance(k) <= Epsilon

\* C4 (position convergence): once nothing but ticks with positive elapsed
\* time and speed happens, every key comes within 0.001 of its target and
\* the animating flag becomes false, and it stays so, whatever toggles,
\* selections and updateSteps calls came before.
C4_Convergence == <>[][TickOn]_vars => <>[]Settled

\* a key of the convergence run left away from its target with the
\* animation switched off
Stranded ==
  /\ ~animating
  /\ \E k \in DOMAIN targetPositions : Distance(k) > Epsilon

\* one ball across one update: it does not move away from its target and
\* does not pass it
Approaches(p, t, q) ==
  /\ Abs(t - q) <= Abs(t - p)
  /\ p <= t => (p <= q /\ q <= t)
  /\ p >= t => (t <= q /\ q <= p)

\* every update keeps every ball between its old position and its target
C5_Bounded ==
  \A in \in TickInputs :
    \A k \in DOMAIN ballPositions \cap DOMAIN targetPositions :
       Approaches(ballPositions[k], targetPositions[k],
                  update(St, in[1], in[2]).ballPositions[k])

\* a ball within 0.001 of its target (strictly) is left where it is
C5_Rests ==
  \A in \in TickInputs :
    \A k \in DOMAIN ballPositions \cap DOMAIN targetPositions :
       Distance(k) < Epsilon =>
         update(St, in[1], in[2]).ballPositions[k] = ballPositions[k]

\* C5 (no overshoot): every update moves each ball toward its target by at
\* most the remaining distance (never past it, never away from it); with
\* positive elapsed time and speed the ball gets strictly closer on every
\* tick while it is more than 0.001 away; within 0.001 it stops changing.
C5_NoOvershoot ==
  /\ C5_Bounded
  /\ C5_Rests
  /\ \A in \in PositiveTicks :
       \A k \in DOMAIN ballPositions \cap DOMAIN targetPositions :
          Distance(k) > Epsilon =>
            Abs(targetPositions[k]
                  - update(St, in[1], in[2]).ballPositions[k]) < Distance(k)

\* C6 (range): in every reachable state the position and the target of
\* every registered key lie in [0,1].
C6_Range ==
  /\ \A k \in DOMAIN ballPositions :
       0 <= ballPositions[k] /\ ballPositions[k] <= PosScale
  /\ \A k \in DOMAIN targetPositions :
       0 <= targetPositions[k] /\ targetPositions[k] <= PosScale

\* a ball under way, strictly inside the path, to a target at its far end,
\* while another key rests at the start
C6_Witness ==
  /\ animating
  /\ \E k \in DOMAIN ballPositions :
       /\ 0 < ballPositions[k] /\ ballPositions[k] < PosScale
       /\ targetPositions[k] = PosScale
  /\ \E k \in DOMAIN ballPositions :
       ballPositions[k] = 0 /\ targetPositions[k] = 0

RECURSIVE TickN(_, _)
\* n animation frames with positive elapsed time and speed
TickN(s, n) == IF n = 0 THEN s ELSE TickN(update(s, 3000, 10), n - 1)

\* Space pressed twice in automatic mode: into manual mode and back
RoundTrip(s) ==
  [initializeManualNavigation([s EXCEPT !.manualControl = TRUE])
     EXCEPT !.manualControl = FALSE]

\* C7 (mode round trip): in automatic mode, going to manual mode and back
\* with no updateSteps in between leaves the step getCurrentStep returns,
\* now and after any number of ticks, what it would have been without it.
C7_RoundTrip ==
  ~manualControl =>
    \A n \in 0..MaxTicks :
       CurrentStepValue(TickN(RoundTrip(St), n)) = CurrentStepValue(TickN(St, n))

\* C8 (no operation throws): in every reachable state, entering manual
\* mode, setActivePipeline, moveToNextStep, moveToPreviousStep,
\* getCurrentStep, update and updateSteps all complete normally.
C8_NeverThrows ==
  /\ ~initializeManualNavigation([St EXCEPT !.manualControl = TRUE]).threw
  /\ \A k \in SelectableKeys : ~setActivePipeline(St, k).threw
  /\ ~moveToNextStep(St).threw
  /\ ~moveToPreviousStep(St).threw
  /\ ~getCurrentStep(St).threw
  /\ \A in \in TickInputs : ~update(St, in[1], in[2]).threw
  /\ \A l \in Snapshots : ~updateSteps(St, l).threw

\* C9 (manual mode only): in automatic mode moveToNextStep and
\* moveToPreviousStep return false and change no step index, target or
\* cached step.
C9_ManualOnly ==
  ~manualControl =>
    /\ moveToNextStep(St) = [St EXCEPT !.ret = "false"]
    /\ moveToPreviousStep(St) = [St EXCEPT !.ret = "false"]

\* the number of times record r occurs in list l
Count(l, r) == Cardinality({ i \in 1..Len(l) : l[i] = r })

\* the key the grouping mode resolves for a record, "" when it has none
ResolvableKey(r, mode) ==
  IF mode = "resource"
  THEN IF r.namespace # "" /\ r.name # ""
       THEN r.namespace \o "/" \o r.name ELSE ""
  ELSE IF r.reconcileId # "" THEN r.reconcileId
       ELSE IF r.reconcileID # "" THEN r.reconcileID ELSE ""

\* C10 (grouping is a partition): for the stored step list and the grouping
\* mode in force, every record with a resolvable key is in the group of
\* that key as often as it is in the list and in no other group, a record
\* without a resolvable key is in no group, and no group is empty.
C10_Partition ==
  LET map == getGroupedSteps(St).map
  IN  /\ \A g \in DOMAIN map : Len(map[g]) > 0
      /\ \A g \in DOMAIN map : \A i \in 1..Len(map[g]) :
            Count(steps, map[g][i]) > 0
      /\ \A i \in 1..Len(steps) :
            LET r == steps[i]
                key == ResolvableKey(r, groupingMode)
            IN  /\ key # "" =>
                      /\ Has(map, key)
                      /\ Count(map[key], r) = Count(steps, r)
                /\ \A g \in DOMAIN map \ {key} : Count(map[g], r) = 0

\* a list in by-resource mode with records of two resources around a
\* record without a name
C10_Witness ==
  /\ groupingMode = "resource"
  /\ Len(steps) = 3
  /\ ResolvableKey(steps[1], groupingMode) # ""
  /\ ResolvableKey(steps[2], groupingMode) = ""
  /\ ResolvableKey(steps[3], groupingMode) # ""
  /\ ResolvableKey(steps[3], groupingMode) # ResolvableKey(steps[1], groupingMode)
  /\ Cardinality(DOMAIN getGroupedSteps(St).map) = 2

\* the time a record is ordered by: its timestamp, else its ts
OrderTime(r) == IF r.timestamp # 0 THEN r.timestamp ELSE r.ts

\* the input positions of the records that resolve to key g
PositionsOf(g) ==
  { p \in 1..Len(steps) : ResolvableKey(steps[p], groupingMode) = g }

\* position q comes before position p: earlier time, or equal time and
\* earlier in the input
Before(q, p) ==
  \/ OrderTime(steps[q]) < OrderTime(steps[p])
  \/ OrderTime(steps[q]) = OrderTime(steps[p]) /\ q < p

\* C11 (ordering): within every group the steps are in ascending order of
\* time, and records of equal time are in their input order: the i-th step
\* of a group is the record at the input position that has i-1 positions of
\* the group before it.
C11_StableOrder ==
  LET map == getGroupedSteps(St).map
  IN  \A g \in DOMAIN map :
        /\ Len(map[g]) = Cardinality(PositionsOf(g))
        /\ \A p \in PositionsOf(g) :
              map[g][Cardinality({ q \in PositionsOf(g) : Before(q, p) }) + 1]
                = steps[p]

\* by-reconciliation mode, the input holds records of times 2, 2, 1 of one
\* key, the two of equal time being different records
C11_Witness ==
  /\ groupingMode = "reconcileId"
  /\ Len(steps) = 3
  /\ \A i \in 1..3 : ResolvableKey(steps[i], groupingMode) = "A"
  /\ OrderTime(steps[1]) = 2 /\ OrderTime(steps[2]) = 2
  /\ OrderTime(steps[3]) = 1
  /\ steps[1] # steps[2]
  /\ getGroupedSteps(St).map["A"] = <<steps[3], steps[1], steps[2]>>

\* mutant: the call sorts the retained list in place before grouping it
CallGetGroupedStepsSortingInPlace(s) ==
  [s EXCEPT !.steps = SortByTime(@),
            !.ret = getGroupedSteps([s EXCEPT !.steps = SortByTime(@)])]

\* the call getGroupedSteps(): the Map it returns in ret, and the object as
\* the call leaves it (the method writes no field and no step record)
CallGetGroupedSteps(s) == [s EXCEPT !.ret = getGroupedSteps(s)]

KeysUnder(mode) ==
  { ResolvableKey(steps[i], mode) : i \in 1..Len(steps) } \ {""}

\* the mode setGroupingMode takes a request for
ModeFor(requested) ==
  IF requested = "resource" THEN "resource" ELSE "reconcileId"

\* after a change of mode the registered keys are the group keys of the new
\* mode, every ball and target is at 0 and no key is active
C13_Rebuilt ==
  \A m \in ModeRequests :
    (ModeFor(m) # groupingMode /\ Len(steps) > 0) =>
      LET r == setGroupingMode(St, m)
      IN  /\ r.groupingMode = ModeFor(m)
          /\ PipelineKeys(r) = KeysUnder(ModeFor(m))
          /\ Len(r.pipelineObjects) = Cardinality(KeysUnder(ModeFor(m)))
          /\ r.ballPositions = [k \in KeysUnder(ModeFor(m)) |-> 0]
          /\ r.targetPositions = [k \in KeysUnder(ModeFor(m)) |-> 0]
          /\ r.activePipelineId = NoPipeline

\* C13 (grouping-mode switch): after setGroupingMode has changed the mode
\* with a non-empty retained list, the registered keys are exactly the
\* group keys of the new mode, every pipeline has position and target 0 and
\* no stored step index, and no key is active.
C13_ModeSwitch ==
  /\ C13_Rebuilt
  /\ \A m \in ModeRequests :
       (ModeFor(m) # groupingMode /\ Len(steps) > 0) =>
          setGroupingMode(St, m).currentStepIndices = EmptyMap

\* clearAllPipelines leaves no pipeline, position, target or step index
C14_Drops ==
  LET r == clearAllPipelines(St)
  IN  /\ r.pipelineObjects = <<>>
      /\ DOMAIN r.ballPositions = {}
      /\ DOMAIN r.targetPositions = {}
      /\ DOMAIN r.currentStepIndices = {}

\* C14 (clear all): clearAllPipelines empties every per-key map and resets
\* activePipelineId to none.
C14_ClearAll ==
  /\ C14_Drops
  /\ clearAllPipelines(St).activePipelineId = NoPipeline

\* a step that does not change the grouping mode loses no registered key
C15_KeysKept ==
  groupingMode' = groupingMode =>
    /\ PipelineKeys(St) \subseteq { pipelineObjects'[i].id :
                                      i \in 1..Len(pipelineObjects') }
    /\ DOMAIN ballPositions \subseteq DOMAIN ballPositions'
    /\ DOMAIN targetPositions \subseteq DOMAIN targetPositions'

\* updateSteps leaves every key registered before it registered, a key
\* absent from the new list with the position and target it had
C15_StaleKept ==
  \A l \in Snapshots :
    LET r == updateSteps(St, l)
    IN  \A k \in PipelineKeys(St) :
          /\ k \in PipelineKeys(r)
          /\ (\A i \in 1..Len(l) : ResolvableKey(l[i], groupingMode) # k) =>
                /\ r.ballPositions[k] = ballPositions[k]
                /\ r.targetPositions[k] = targetPositions[k]

\* C15 (destruction only by clear-all): no step other than a change of the
\* grouping mode removes a registered key, and a key absent from the list
\* given to updateSteps stays registered with its position and target.
C15_OnlyClearAllDestroys == [][C15_KeysKept]_vars /\ [](C15_StaleKept)

\* a registered key that has no steps in the retained list and whose ball
\* has left the start of its path
C15_Witness ==
  \E k \in PipelineKeys(St) :
    /\ k \notin KeysUnder(groupingMode)
    /\ ballPositions[k] > 0
    /\ targetPositions[k] > 0

\* the paths registered for key k: the layout slots its curve was built at
PathsOf(s, k) ==
  { i \in 1..Len(s.pipelineObjects) : s.pipelineObjects[i].id = k }

\* updateSteps(l) leaves the path, position, target and step index of every
\* key registered before it, the navigation mode and a set active key
UpdateKeeps(l) ==
  LET r == updateSteps(St, l)
  IN  /\ \A k \in PipelineKeys(St) :
            /\ PathsOf(r, k) = PathsOf(St, k)
            /\ \A i \in PathsOf(St, k) :
                  r.pipelineObjects[i] = pipelineObjects[i]
            /\ r.ballPositions[k] = ballPositions[k]
            /\ r.targetPositions[k] = targetPositions[k]
            /\ IndexOrZero(r, k) = IndexOrZero(St, k)
      /\ r.manualControl = manualControl
      /\ activePipelineId # NoPipeline =>
            r.activePipelineId = activePipelineId

\* C16 (incremental update): updateSteps leaves, for every key that already
\* has a pipeline, its path, position, target and step index (an index not
\* stored counting as 0, as every reader of the map takes it) unchanged,
\* leaves the navigation mode and an already set active key unchanged, and
\* every registered key has exactly one path.
C16_IncrementalUpdate ==
  /\ \A l \in Snapshots : UpdateKeeps(l)
  /\ \A k \in PipelineKeys(St) : Cardinality(PathsOf(St, k)) = 1

\* C16 as stated, the stored step indices compared entry by entry: an
\* updateSteps also leaves no key with an index stored that had none
C16_AsStated ==
  /\ C16_IncrementalUpdate
  /\ \A l \in Snapshots :
       \A k \in PipelineKeys(St) :
          Has(updateSteps(St, l).currentStepIndices, k)
            = Has(currentStepIndices, k)

\* manual mode, an active key under way to a target past its stored step,
\* and a second key registered
C16_Witness ==
  /\ manualControl /\ animating
  /\ activePipelineId # NoPipeline
  /\ Has(currentStepIndices, activePipelineId)
  /\ currentStepIndices[activePipelineId] = 1
  /\ ballPositions[activePipelineId] > 0
  /\ ballPositions[activePipelineId] < targetPositions[activePipelineId]
  /\ Cardinality(PipelineKeys(St)) = 2

\* the registered paths as a set of (key, slot) records
Layout(s) == { s.pipelineObjects[i] : i \in 1..Len(s.pipelineObjects) }

\* a key that updateSteps sees for the first time is registered with
\* position and target 0
C17_NewAtZero ==
  \A l \in Snapshots :
    LET r == updateSteps(St, l)
    IN  \A k \in PipelineKeys(r) \ PipelineKeys(St) :
          /\ Cardinality(PathsOf(r, k)) = 1
          /\ r.ballPositions[k] = 0
          /\ r.targetPositions[k] = 0

\* C17 (deterministic layout): a key first seen by updateSteps is registered
\* with position and target 0, and the paths depend on the keys alone: when
\* the registered keys are the group keys of the retained list, the layout
\* is the one a fresh registry builds from that list in one call.
C17_DeterministicLayout ==
  /\ C17_NewAtZero
  /\ (Len(steps) > 0 /\ PipelineKeys(St) = KeysUnder(groupingMode)) =>
        Layout(St) = Layout(updateSteps(clearAllPipelines(St), steps))

\* the distance of position pos from step j of n
StepDistance(pos, j, n) ==
  Abs(pos - (j * PosScale) \div (IF n > 1 THEN n - 1 ELSE 1))

\* the lowest index among the steps nearest to pos
NearestIndex(pos, n) ==
  CHOOSE i \in 0..(n - 1) :
    /\ \A j \in 0..(n - 1) : StepDistance(pos, i, n) <= StepDistance(pos, j, n)
    /\ \A j \in 0..(i - 1) : StepDistance(pos, j, n) > StepDistance(pos, i, n)

\* C18 (automatic-mode lookup): in automatic mode with an active key whose
\* group has n >= 1 steps, getCurrentStep returns (and caches) the step at
\* the index nearest to the ball, the lowest such index on a tie; position
\* 0.52 with 5 steps gives index 2.
C18_AutoLookup ==
  /\ (~manualControl /\ Len(ActiveGroup) >= 1) =>
       LET n == Len(ActiveGroup)
           i == NearestIndex(ballPositions[activePipelineId], n)
           step == << Shown(ActiveGroup, i) >>
       IN  /\ CurrentStepValue(St) = step
           /\ getCurrentStep(St).currentStep = step
  /\ ClosestIndex((52 * PosScale) \div 100, 5) = 2

\* automatic mode, two steps, the ball exactly half way between them
C18_Witness ==
  /\ ~manualControl
  /\ Len(ActiveGroup) = 2
  /\ ballPositions[activePipelineId] = PosScale \div 2

\* in manual mode, when the active group has a step at the stored index (0
\* when none is stored), getCurrentStep returns that step
C19_AtIndex ==
  (manualControl /\ Len(ActiveGroup) > ActiveIndex) =>
     CurrentStepValue(St) =
       << Shown(ActiveGroup, ActiveIndex) >>

\* the engine with every ball moved to position p
BallsAt(p) == [St EXCEPT !.ballPositions = [k \in DOMAIN @ |-> p]]

\* C19 (manual-mode lookup): in manual mode with an active key that has
\* steps, getCurrentStep returns the step at the stored index of the active
\* key (index 0 when none is stored), and what it returns does not depend on
\* where the balls are.
C19_ManualLookup ==
  /\ C19_AtIndex
  /\ (manualControl /\ Len(ActiveGroup) >= 1) =>
        \A p \in {0, PosScale \div 2, PosScale} :
           CurrentStepValue(BallsAt(p)) = CurrentStepValue(St)

\* C20 (no active group): when no key is active, or the active key has no
\* steps in the current grouping, getCurrentStep returns the cached current
\* step (none when nothing is cached) and leaves the cache as it is; it
\* returns no step of another group.
C20_FallbackToCache ==
  (activePipelineId = NoPipeline \/ Len(ActiveGroup) = 0) =>
     /\ CurrentStepValue(St) = currentStep
     /\ getCurrentStep(St).currentStep = currentStep

\* the steps grouped under key k in engine s; none when k has no group
GroupOf(s, k) ==
  LET map == getGroupedSteps(s).map
  IN  IF Has(map, k) THEN map[k] ELSE <<>>

\* the engine after the Space handler switches it to manual navigation
EnterManual ==
  initializeManualNavigation([St EXCEPT !.manualControl = TRUE])

\* C21 (automatic to manual): on entering manual mode every known key that
\* has no stored step index gets one, and for a key that has n >= 1 steps it
\* is the index of the step whose position i / max(1, n - 1) is nearest to
\* where that key's ball is.
C21_NearestOnEntry ==
  ~manualControl =>
     \A k \in PipelineKeys(St) :
        ~Has(currentStepIndices, k) =>
           /\ Has(EnterManual.currentStepIndices, k)
           /\ Len(GroupOf(St, k)) >= 1 =>
                EnterManual.currentStepIndices[k] =
                  NearestIndex(ballPositions[k], Len(GroupOf(St, k)))

\* automatic mode after a manual episode: one key holds an index and its
\* ball has left the start, another key with two steps has no index yet
C21_Witness ==
  /\ ~manualControl
  /\ \E k \in PipelineKeys(St) :
        Has(currentStepIndices, k) /\ ballPositions[k] > 0
  /\ \E k \in PipelineKeys(St) :
        ~Has(currentStepIndices, k) /\ Len(GroupOf(St, k)) = 2

\* stored step indices the engine could hold instead of its own: none, and
\* every known key at one same index
OtherIndices ==
  {EmptyMap} \cup
  { [k \in PipelineKeys(St) |-> i] : i \in 0..(MaxSnapshotLen - 1) }

\* C22 (automatic lookup ignores stored indices): in automatic mode two
\* engines that differ only in their stored step indices give the same
\* result from getCurrentStep and cache the same step.
C22_IndexIndependent ==
  ~manualControl =>
     \A m \in OtherIndices :
        LET other == [St EXCEPT !.currentStepIndices = m]
        IN  /\ CurrentStepValue(other) = CurrentStepValue(St)
            /\ getCurrentStep(other).currentStep =
                 getCurrentStep(St).currentStep

\* automatic mode, the active key's stored index names a step that exists
\* and is not the step nearest to its ball
C22_Witness ==
  /\ ~manualControl
  /\ Len(ActiveGroup) >= 2
  /\ Has(currentStepIndices, activePipelineId)
  /\ ActiveIndex < Len(ActiveGroup)
  /\ ActiveIndex # NearestIndex(ballPositions[activePipelineId],
                                Len(ActiveGroup))

\* what setActivePipeline(k) does whenever it is called for a registered
\* key: it answers true; for the key already active nothing changes;
\* otherwise k becomes the active key and positions are untouched, and in
\* automatic mode so are the stored indices and the targets
C23_Selects ==
  \A k \in PipelineKeys(St) :
     LET r == setActivePipeline(St, k)
     IN  /\ r.ret = "true"
         /\ (activePipelineId = k) => [r EXCEPT !.ret = St.ret] = St
         /\ (activePipelineId # k) =>
               /\ r.activePipelineId = k
               /\ r.ballPositions = ballPositions
               /\ ~manualControl =>
                     /\ r.currentStepIndices = currentStepIndices
                     /\ r.targetPositions = targetPositions

\* C23 (selection): setActivePipeline(k) for a registered key answers true;
\* if k is already active nothing changes; otherwise k becomes the only
\* active key, and in manual mode k has a stored index afterwards (0 if it
\* had none), the step at that index is cached and k's target is
\* index / max(1, n - 1); in automatic mode no index, target or position
\* changes.
C23_Selection ==
  /\ C23_Selects
  /\ \A k \in PipelineKeys(St) :
        (manualControl /\ activePipelineId # k) =>
           LET r == setActivePipeline(St, k)
               group == GroupOf(St, k)
               n == Len(group)
               i == IndexOrZero(St, k)
           IN  /\ Has(r.currentStepIndices, k)
               /\ r.currentStepIndices[k] = i
               /\ i < n
               /\ r.currentStep =
                    << Shown(group, i) >>
               /\ r.targetPositions[k] = (i * PosScale) \div Max(1, n - 1)

\* updateSteps with a list that has records retains exactly that list
C24_NonEmptyReplaces ==
  \A l \in Snapshots \ {<<>>} : updateSteps(St, l).steps = l

\* C24 (wholesale replacement): after updateSteps(L) the retained step list
\* is L, for every list L, the empty list included; after the empty list
\* grouping yields no group.
C24_Replaced ==
  \A l \in Snapshots :
     LET r == updateSteps(St, l)
     IN  /\ r.steps = l
         /\ l = <<>> => getGroupedSteps(r).keys = <<>>

\* the per-key maps and the registered keys of engine s
PerKey(s) ==
  [pipelineObjects |-> s.pipelineObjects, ballPositions |-> s.ballPositions,
   targetPositions |-> s.targetPositions,
   currentStepIndices |-> s.currentStepIndices,
   pipelines |-> s.pipelines, curves |-> s.curves, tubes |-> s.tubes,
   balls |-> s.balls]

\* getCurrentStep and getPipelineIds register no key and write no per-key
\* map, whatever the active key is; the curve of a registered key is
\* returned without creating anything
C25_QueriesKeep ==
  /\ PerKey(getCurrentStep(St)) = PerKey(St)
  /\ getPipelineIds(St) = [i \in 1..Len(pipelineObjects) |->
                             pipelineObjects[i].id]
  /\ \A k \in PipelineKeys(St) :
        PerKey(getCurveForReconcileId(St, k)) = PerKey(St)

\* C25 (read-only queries): a query for a key that has no pipeline signals
\* not-found and creates nothing: getCurveForReconcileId returns no curve,
\* and the registered keys and every per-key map are as before; the same
\* maps are untouched by getCurrentStep and getPipelineIds.
C25_ReadOnly ==
  /\ C25_QueriesKeep
  /\ \A k \in SelectableKeys \ PipelineKeys(St) :
        LET r == getCurveForReconcileId(St, k)
        IN  /\ r.ret # "curve"
            /\ PerKey(r) = PerKey(St)

\* min(distance, min(0.003, distance * 0.1 + 0.0005) * elapsedSeconds *
\* speed * 60) in position units, for elapsed milliseconds and speed tenths
RuleStep(distance, elapsedMs, speedTenths) ==
  Min(distance,
      (Min(10 * MaxStep, distance + 10 * MinStep) * elapsedMs * speedTenths
         * 6) \div 10000)

\* the step rule holds of the outcome r of one update of the present state
StepRule(r, elapsedMs, speedTenths) ==
  /\ \A k \in DOMAIN targetPositions \cap DOMAIN ballPositions :
        LET d == Distance(k)
            toward == IF targetPositions[k] > ballPositions[k] THEN 1 ELSE -1
        IN  /\ d > Epsilon =>
                 r.ballPositions[k] =
                   ballPositions[k] +
                     toward * RuleStep(d, elapsedMs, speedTenths)
            /\ d <= Epsilon => r.ballPositions[k] = ballPositions[k]
  /\ r.animating = FALSE <=>
        \A k \in DOMAIN r.targetPositions :
           Abs(r.targetPositions[k] - r.ballPositions[k]) <= Epsilon

\* an update of an engine that is marked animating follows the step rule
C26_WhileAnimating ==
  animating =>
     \A in \in TickInputs : StepRule(update(St, in[1], in[2]), in[1], in[2])

\* C26 (tick step rule): one update moves every key farther than 0.001 from
\* its target toward it by min(distance, min(0.003, distance * 0.1 + 0.0005)
\* * elapsedSeconds * speed * 60), moves no key that is within 0.001, and
\* leaves the engine marked not animating exactly when every key is within
\* 0.001 of its target.
C26_StepRule ==
  \A in \in TickInputs : StepRule(update(St, in[1], in[2]), in[1], in[2])

\* a step that gives some key a target it did not have, more than 0.001
\* away from where its ball is, leaves the engine marked animating
C27_CommandsAnimate ==
  [][ (\E k \in DOMAIN targetPositions' :
          /\ ~Has(targetPositions, k) \/ targetPositions'[k] # targetPositions[k]
          /\ Abs(targetPositions'[k] - ballPositions'[k]) > Epsilon)
        => animating' ]_vars

\* C27 (no stranding): in every reachable state, when the engine is not
\* marked animating every key is within 0.001 of its target.
C27_NoStranding ==
  ~animating =>
     \A k \in DOMAIN targetPositions :
        Abs(targetPositions[k] - ballPositions[k]) <= Epsilon

\* what the two reads of the clock around a call of update can differ by,
\* and the speeds the caller passes
ClockDeltas == { in[1] : in \in TickInputs }
Speeds == { in[2] : in \in TickInputs }

\* C28 (tick determinism): the positions after update(speed) are determined
\* by the positions, the targets and the speed passed in; they do not
\* depend on what the clock reads inside the call.
C28_TickDeterminism ==
  \A speed \in Speeds :
     \A d1 \in ClockDeltas : \A d2 \in ClockDeltas :
        update(St, d1, speed).ballPositions =
          update(St, d2, speed).ballPositions

\* the indices and counts enrichStepWithMetadata is called with
EnrichIndices == 0..(MaxSnapshotLen - 1)
EnrichTotals == 1..MaxSnapshotLen

\* C29 (enrichment): enrichStepWithMetadata(step, index, total) returns an
\* object that carries every field of step with its value, together with
\* stepNumber = index + 1 and totalSteps = total; the record passed in, and
\* the retained list it belongs to, are as before; the object returned is
\* stored as the engine's current step, and nothing else of the engine
\* changes.
C29_Enrich ==
  \A n \in 1..Len(steps) : \A index \in EnrichIndices :
    \A total \in EnrichTotals :
       LET step == steps[n]
           returned == Enriched(step, index, total)
           r == enrichStepWithMetadata(St, step, index, total)
       IN  /\ \A f \in DOMAIN step : returned[f] = step[f]
           /\ returned.metadata.stepNumber = index + 1
           /\ returned.metadata.totalSteps = total
           /\ r.steps = steps
           /\ r.currentStep = <<returned>>
           /\ [r EXCEPT !.currentStep = currentStep] = St

\* three records are retained and the current step is an enriched copy of
\* one of them, numbered 2 of 3
C29_Witness ==
  /\ Len(steps) = 3
  /\ currentStep # NoStep
  /\ currentStep[1].metadata = [stepNumber |-> 2, totalSteps |-> 3]
  /\ \E n \in 1..Len(steps) :
        \A f \in DOMAIN steps[n] : currentStep[1][f] = steps[n][f]

\* the time the record is to be ordered by: epoch 0 when it has no usable
\* timestamp, else its timestamp
DefaultedTime(r) ==
  LET given == IF r.timestamp # 0 THEN r.timestamp ELSE r.ts
  IN  IF given = Unparsable THEN 0 ELSE given

\* the list is in ascending order of defaulted time: records without a
\* usable timestamp come before every record with a positive one, and the
\* others ascend
DefaultedOrder(l) ==
  \A i \in 1..Len(l) : \A j \in 1..Len(l) :
     i < j => DefaultedTime(l[i]) <= DefaultedTime(l[j])

\* the records of the retained list grouped under key g, in input order
Ungrouped(g) == StepsWithKey(steps, groupingMode, g)

\* a group in which every record has a timestamp that parses, or none at
\* all, is in ascending order with the records without timestamp first
C30_MissingFirst ==
  LET map == getGroupedSteps(St).map
  IN  \A g \in DOMAIN map :
         (\A i \in 1..Len(map[g]) : TimeValue(map[g][i]) # Unparsable) =>
             /\ SortOutcomes(Ungrouped(g)) = {map[g]}
             /\ DefaultedOrder(map[g])

\* C30 (malformed timestamps): within every group a record whose timestamp
\* is missing or cannot be parsed is ordered as if its time were epoch 0,
\* before every record with a positive timestamp, and the other records are
\* in ascending order of timestamp, whatever order the sort may leave.
C30_Defaulted ==
  LET map == getGroupedSteps(St).map
  IN  \A g \in DOMAIN map :
         \A out \in SortOutcomes(Ungrouped(g)) : DefaultedOrder(out)

\* C31 (cross-map consistency): in every reachable state the per-key maps
\* pipelineObjects, pipelines, curves, tubes, balls, ballPositions and
\* targetPositions have the same set of keys, and every key of
\* currentStepIndices is one of them.
C31_SameKeys ==
  LET keys == { pipelineObjects[i].id : i \in 1..Len(pipelineObjects) }
  IN  /\ pipelines = keys
      /\ curves = keys
      /\ tubes = keys
      /\ balls = keys
      /\ DOMAIN ballPositions = keys
      /\ DOMAIN targetPositions = keys
      /\ DOMAIN currentStepIndices \subseteq keys

\* two pipelines are registered, one of them has a stored step index and
\* the other has none, after the maps were cleared by a mode switch
C31_Witness ==
  /\ Len(pipelineObjects) = 2
  /\ groupingMode = "resource"
  /\ Cardinality(DOMAIN currentStepIndices) = 1

\* C32 (active-key validity): in every reachable state the active key is
\* none or the key of a registered pipeline, which every per-key map holds.
C32_ActiveRegistered ==
  activePipelineId # NoPipeline =>
     /\ \E i \in 1..Len(pipelineObjects) :
           pipelineObjects[i].id = activePipelineId
     /\ activePipelineId \in DOMAIN ballPositions
     /\ activePipelineId \in DOMAIN targetPositions

\* grouped by resource after a mode switch cleared the pipelines of the
\* reconciliation keys, a resource key has been selected again
C32_Witness ==
  /\ groupingMode = "resource"
  /\ activePipelineId # NoPipeline
  /\ Len(pipelineObjects) = 2
  /\ \E i \in 1..Len(steps) : steps[i].reconcileId = "A"

\* C33 (step-index validity): in every reachable state, for every key that
\* has a stored step index and whose group has n >= 1 steps, the index is
\* at least 0 and at most n - 1.
C33_IndexInRange ==
  \A k \in DOMAIN currentStepIndices :
     Len(GroupOf(St, k)) >= 1 =>
        /\ 0 <= currentStepIndices[k]
        /\ currentStepIndices[k] <= Len(GroupOf(St, k)) - 1

\* C34 (manual-mode coherence): in manual mode with the animation off, the
\* ball of the active key is within 0.001 of the position of its stored
\* step, index / max(1, n - 1) for the n >= 1 steps its group has now, and
\* the step getCurrentStep reports is the step nearest to the ball.
C34_BallAtStep ==
  (manualControl /\ ~animating /\ Len(ActiveGroup) >= 1) =>
     LET n == Len(ActiveGroup)
         pos == ballPositions[activePipelineId]
     IN  /\ Abs(pos - (ActiveIndex * PosScale) \div (IF n > 1 THEN n - 1 ELSE 1))
              <= Epsilon
         /\ CurrentStepValue(St) = << Shown(ActiveGroup, NearestIndex(pos, n)) >>

\* the positions of list l whose record has a key under the mode in force
Keyed(l) == { i \in 1..Len(l) : ResolvableKey(l[i], groupingMode) # "" }

\* the key of the first record of l that has one
FirstSeenKey(l) ==
  ResolvableKey(l[CHOOSE i \in Keyed(l) : \A j \in Keyed(l) : i <= j],
                groupingMode)

OnlyActiveKeyMoved(r) ==
  /\ r.activePipelineId = activePipelineId
  /\ r.groupingMode = groupingMode
  /\ r.steps = steps
  /\ r.pipelineObjects = pipelineObjects
  /\ r.ballPositions = ballPositions
  /\ DOMAIN r.targetPositions = DOMAIN targetPositions
  /\ DOMAIN r.currentStepIndices =
       DOMAIN currentStepIndices \cup {activePipelineId}
  /\ \A k \in DOMAIN targetPositions \ {activePipelineId} :
        r.targetPositions[k] = targetPositions[k]
  /\ \A k \in DOMAIN currentStepIndices \ {activePipelineId} :
        r.currentStepIndices[k] = currentStepIndices[k]

\* C36 (navigation frame): a successful moveToNextStep or moveToPreviousStep
\* changes the stored index and the target of the active key only; the
\* index and target of every other key, every position, the active key, the
\* grouping mode and the retained step list are as before.
C36_OnlyActiveKey ==
  /\ moveToNextStep(St).ret = "true" => OnlyActiveKeyMoved(moveToNextStep(St))
  /\ moveToPreviousStep(St).ret = "true" =>
        OnlyActiveKeyMoved(moveToPreviousStep(St))

\* manual mode, a move forward is possible for the active key, and another
\* key has been moved off the start before
C36_Witness ==
  /\ manualControl
  /\ moveToNextStep(St).ret = "true"
  /\ \E k \in DOMAIN targetPositions \ {activePipelineId} :
        targetPositions[k] > 0 /\ currentStepIndices[k] > 0

\* C37 (layout slots): no two registered pipelines have the same layout
\* slot (offsetX, offsetY).
C37_UniqueSlots ==
  \A i \in 1..Len(pipelineObjects) : \A j \in 1..Len(pipelineObjects) :
     i # j =>
        <<pipelineObjects[i].offsetX, pipelineObjects[i].offsetY>> #
          <<pipelineObjects[j].offsetX, pipelineObjects[j].offsetY>>

\* the pipelines created by one updateSteps call on an engine without
\* pipelines have slots of their own
C37_UniqueWithinCall ==
  \A l \in Snapshots :
     LET r == updateSteps(clearAllPipelines(St), l)
     IN  \A i \in 1..Len(r.pipelineObjects) :
           \A j \in 1..Len(r.pipelineObjects) :
              i # j =>
                 <<r.pipelineObjects[i].offsetX, r.pipelineObjects[i].offsetY>>
                   # <<r.pipelineObjects[j].offsetX,
                       r.pipelineObjects[j].offsetY>>

\* C38 (setGroupingMode): a request for the mode in force changes nothing of
\* the engine; a mode other than "reconcileId" and "resource" is taken as
\* "reconcileId"; and the grouping mode is always one of the two.
C38_ModeRequest ==
  /\ groupingMode \in {"reconcileId", "resource"}
  /\ \A m \in ModeRequests :
        LET r == setGroupingMode(St, m)
            asked == IF m = "resource" THEN "resource" ELSE "reconcileId"
        IN  /\ r.groupingMode = asked
            /\ asked = groupingMode => r = St
            /\ m \notin {"reconcileId", "resource"} =>
                  r = setGroupingMode(St, "reconcileId")

\* grouped by resource in manual mode, with a key active, an index stored
\* and a step cached, all of which a repeated request must leave alone
C38_Witness ==
  /\ groupingMode = "resource"
  /\ manualControl
  /\ activePipelineId # NoPipeline
  /\ currentStep # NoStep
  /\ DOMAIN currentStepIndices # {}
  /\ \E k \in DOMAIN targetPositions : targetPositions[k] > 0

====
